---- MODULE Spec2Model ----
(***************************************************************************)
(* Model of the two wheel-reuse scripts of the CI actions                  *)
(*   .github/actions/reuse-old-whl/reuse_old_whl.py   (script "reuse")     *)
(*   .github/actions/check-old-whl/reuse_old_whl.py   (script "check")     *)
(* Strings are TLA+ strings; startswith, endswith, strip, split and        *)
(* with_suffix are computed character by character.  An archive (zip or    *)
(* wheel) is a function from entry names to contents; a directory is a     *)
(* function from file names to what the file holds.                        *)
(***************************************************************************)
EXTENDS Integers, Sequences, FiniteSets, TLC

\* ------------------------------------------------------------ bounds
\* longest list of paths `git diff --name-only` prints
MaxFiles == 2
\* longest list of workflow runs the provider returns
MaxRuns == 3
\* number of times the patch function is applied in SpecPatch
MaxApplications == 2

\* ------------------------------------------------------------ strings
FORCE_REBUILD_LABEL == "ci-force-rebuild"

startswith(s, p) == Len(s) >= Len(p) /\ SubSeq(s, 1, Len(p)) = p

endswith(s, p) == Len(s) >= Len(p) /\ SubSeq(s, Len(s) - Len(p) + 1, Len(s)) = p

\* the characters str.strip() and str.split() treat as white space
IsSpace(c) == c \in {" ", "\n", "\t"}

RECURSIVE lstrip(_)
lstrip(s) ==
    IF Len(s) > 0 /\ IsSpace(SubSeq(s, 1, 1))
    THEN lstrip(SubSeq(s, 2, Len(s)))
    ELSE s

RECURSIVE rstrip(_)
rstrip(s) ==
    IF Len(s) > 0 /\ IsSpace(SubSeq(s, Len(s), Len(s)))
    THEN rstrip(SubSeq(s, 1, Len(s) - 1))
    ELSE s

strip(s) == rstrip(lstrip(s))

\* str.split() without arguments: the maximal runs of non-space characters
RECURSIVE split_from(_, _, _)
split_from(s, i, word) ==
    IF i > Len(s)
    THEN IF word = "" THEN <<>> ELSE <<word>>
    ELSE IF IsSpace(SubSeq(s, i, i))
         THEN IF word = ""
              THEN split_from(s, i + 1, "")
              ELSE <<word>> \o split_from(s, i + 1, "")
         ELSE split_from(s, i + 1, word \o SubSeq(s, i, i))

split(s) == split_from(s, 1, "")

\* position of the last "." of a file name that starts a suffix, 0 if none
\* (pathlib: a leading dot and a trailing dot start no suffix)
RECURSIVE rfind_dot(_, _)
rfind_dot(name, i) ==
    IF i <= 1 THEN 0
    ELSE IF SubSeq(name, i, i) = "." THEN i
    ELSE rfind_dot(name, i - 1)

suffix_at(name) ==
    LET i == rfind_dot(name, Len(name))
    IN IF i = Len(name) THEN 0 ELSE i

\* PurePath.stem
stem(name) ==
    IF suffix_at(name) = 0 THEN name ELSE SubSeq(name, 1, suffix_at(name) - 1)

\* PurePath.with_suffix
with_suffix(name, suffix) == stem(name) \o suffix

\* ------------------------------------------------------------ allow list
\* the reuse script's predicate without its torch/csrc/ exclusion
ok_changed_file_keeps_csrc(file) ==
    \/ startswith(file, "torch/") /\ endswith(file, ".py")
    \/ startswith(file, "test/") /\ endswith(file, ".py")

\* ok_changed_file of the reuse script
reuse_ok_changed_file(file) ==
    IF /\ startswith(file, "torch/")
       /\ endswith(file, ".py")
       /\ ~startswith(file, "torch/csrc/")
    THEN TRUE
    ELSE IF startswith(file, "test/") /\ endswith(file, ".py")
    THEN TRUE
    ELSE FALSE

\* ok_changed_file of the check script
check_ok_changed_file(file) ==
    IF /\ startswith(file, "torch/")
       /\ endswith(file, ".py")
       /\ ~startswith(file, "torch/csrc/")
    THEN TRUE
    ELSE IF startswith(file, "test/") /\ endswith(file, ".py")
    THEN TRUE
    ELSE FALSE

ok_changed_file(script, file) ==
    IF script = "reuse" THEN reuse_ok_changed_file(file)
    ELSE check_ok_changed_file(file)

\* the loop returning at its first file, allowed or not
check_files_loop_first_only(script, files, i) ==
    IF i > Len(files) THEN TRUE
    ELSE ok_changed_file(script, files[i])

\* the for loop of check_changed_files: False at the first file that is not
\* allowed, True when the loop runs out
RECURSIVE check_files_loop(_, _, _)
check_files_loop(script, files, i) ==
    IF i > Len(files) THEN TRUE
    ELSE IF ~ok_changed_file(script, files[i]) THEN FALSE
    ELSE check_files_loop(script, files, i + 1)

\* ------------------------------------------------------------ archives
\* f with the entries of g written over it
Overlay(f, g) ==
    [k \in DOMAIN f \cup DOMAIN g |-> IF k \in DOMAIN g THEN g[k] ELSE f[k]]

\* f without the entry k
Without(f, k) == [j \in DOMAIN f \ {k} |-> f[j]]

\* the entries of tree, each named by its path below directory dir
UnderDir(dir, tree) ==
    LET names == {dir \o "/" \o k : k \in DOMAIN tree}
    IN [n \in names |-> tree[CHOOSE k \in DOMAIN tree : dir \o "/" \o k = n]]

NoEntries == <<>>

\* a file that does not exist
NoFile == [exists |-> FALSE, dist |-> NoEntries, expanded |-> NoEntries]

\* ------------------------------------------------------------ environment
\* what `git diff --name-only` prints for a list of paths: one per line
RECURSIVE name_only(_)
name_only(paths) ==
    IF paths = <<>> THEN ""
    ELSE Head(paths) \o "\n" \o name_only(Tail(paths))

\* the lists git can print from the paths of a tree: each path once, in
\* the order of the tree
RECURSIVE SubLists(_, _)
SubLists(paths, n) ==
    IF n = 0 \/ paths = <<>> THEN {<<>>}
    ELSE SubLists(Tail(paths), n)
         \cup {<<Head(paths)>> \o l : l \in SubLists(Tail(paths), n - 1)}

\* paths of the repository, in git's (byte) order
RepoPaths ==
    << "setup.py", "test/test_nn.py", "torch/csrc/foo.cpp",
       "torch/my file.py", "torch/nn/linear.py" >>

\* a wider tree for the runs that only classify files
WidePaths ==
    << "README.md", "setup.py", "test/run.sh", "test/test_nn.py",
       "tools/torch/x.py", "torch/csrc/foo.cpp", "torch/csrc/gen.py",
       "torch/my file.py", "torch/nn/linear.py", "torch/nn/linear.pyi",
       "torchgen/gen.py" >>

\* answers of GET /repos/pytorch/pytorch/commits/{sha}/pulls
PullsResponses ==
    { <<>>,
      << [number |-> 1, labels |-> <<>>] >>,
      << [number |-> 1] >>,
      << [number |-> 1, labels |-> << [name |-> FORCE_REBUILD_LABEL] >>] >>,
      << [number |-> 1, labels |-> << [name |-> "topic: not user facing"] >>],
         [number |-> 2, labels |-> << [name |-> "ciflow/trunk"],
                                      [name |-> FORCE_REBUILD_LABEL] >>] >> }

\* what a storage probe can do: answer 200 with the archive, answer 404, or
\* fail with requests.RequestException
ProbeKinds == {"200", "404", "RequestException"}

\* the i-th run of the provider's answer; the provider lists newer runs
\* (larger ids) first
RunId(i) == 9000 - i

\* the wheel a run built: compiled and interpreted files and the metadata
OldWheel(run_id) ==
    [k \in {"torch/version.py", "torch/_C.so", "torch-2.9.dist-info/RECORD"} |->
        CASE k = "torch/version.py" -> "version of run " \o ToString(run_id)
          [] k = "torch/_C.so" -> "binary of run " \o ToString(run_id)
          [] OTHER -> "record of run " \o ToString(run_id)]

\* artifacts.zip of a run: dist/ with the wheel and a file that is no wheel
OldArtifact(run_id) ==
    [exists |-> TRUE,
     dist |-> [n \in {"torch-2.9-cp310.whl", "build.log"} |->
                 IF n = "build.log" THEN [l \in {"log"} |-> "built"]
                 ELSE OldWheel(run_id)],
     expanded |-> NoEntries]

\* the answer of requests.get for a storage URL
Response(run_id, kind) ==
    [raised |-> kind = "RequestException",
     status_code |-> IF kind = "200" THEN 200 ELSE 404,
     content |-> IF kind = "200" THEN OldArtifact(run_id) ELSE NoFile]

\* the sequences of probe kinds of length at most n
RECURSIVE KindSeqs(_)
KindSeqs(n) ==
    IF n = 0 THEN {<<>>}
    ELSE KindSeqs(n - 1)
         \cup {Append(q, k) : q \in {r \in KindSeqs(n - 1) : Len(r) = n - 1},
                              k \in ProbeKinds}

\* the working tree's torch directory, as rsync names its files
WorkingTrees ==
    { [k \in {"torch/version.py", "torch/nn/linear.py"} |-> "working tree " \o k],
      [k \in {"torch/version.py"} |-> "working tree " \o k],
      NoEntries }

\* the torch directory of the checkout the scripts run in
CheckoutTree ==
    [k \in {"torch/version.py", "torch/nn/linear.py"} |-> "working tree " \o k]

\* the wheels of the artifacts the patch alone is run on
Wheels ==
    { OldWheel(RunId(1)),
      [k \in {"torch/nn/linear.py"} |-> "linear of an old run"],
      NoEntries }

\* artifacts with no wheel, one wheel or two in dist/
PatchArtifacts ==
    LET names == {"torch-2.9-cp310.whl", "torch-2.9-cp39.whl"}
    IN { [exists |-> TRUE,
          dist |-> Overlay([n \in {"build.log"} |-> [l \in {"log"} |-> "built"]], d),
          expanded |-> NoEntries] :
            d \in UNION {[ns -> Wheels] : ns \in SUBSET names} }

\* ------------------------------------------------------------ state
VARIABLES
    script,           \* which of the two scripts runs: "reuse" or "check"
    pc,               \* the statement of the script that runs next
    merge_base,       \* git merge-base HEAD origin/main
    head_sha,         \* git rev-parse HEAD
    diff_output,      \* what git diff --name-only merge_base HEAD prints
    pulls,            \* the provider's pull requests of the head commit
    workflow_runs,    \* the provider's answer to the workflow runs query
    storage,          \* run id -> what probing its storage URL does
    GITHUB_OUTPUT,    \* whether the environment names an output file
    torch,            \* the torch directory of the working tree
    changed_files,    \* check_changed_files' list after strip().split()
    returned,         \* what each function returned, "-" while not called
    can_use_old_whl,  \* the variable of __main__, "-" while not assigned
    run_index,        \* position of find_old_whl's loop in workflow_runs
    probed,           \* the run ids whose storage URL was requested, in order
    artifacts_zip,    \* the file artifacts.zip of the working directory
    artifacts,        \* the directory artifacts/
    wheel_path,       \* the wheels the glob found and the loop has not patched
    output_file,      \* the lines appended to the GITHUB_OUTPUT file
    stdout,           \* the ::set-output lines printed
    exit_code,        \* "-" while running, then the process's exit code
    patched           \* artifacts.zip as each completed patch left it

vars ==
    << script, pc, merge_base, head_sha, diff_output, pulls, workflow_runs,
       storage, GITHUB_OUTPUT, torch, changed_files, returned,
       can_use_old_whl, run_index, probed, artifacts_zip, artifacts,
       wheel_path, output_file, stdout, exit_code, patched >>

env == << script, merge_base, head_sha, diff_output, pulls, workflow_runs,
          storage, GITHUB_OUTPUT, torch >>

files == << artifacts_zip, artifacts, wheel_path, patched >>

NotCalled ==
    [is_main_branch |-> "-", check_changed_files |-> "-",
     check_labels_for_pr |-> "-", find_old_whl |-> "-"]

Bool(b) == IF b THEN "True" ELSE "False"

NoDirectory == [dist |-> NoEntries, expanded |-> NoEntries]

\* the provider's answer for a sequence of probe kinds, one run each
RunsResponse(kinds) ==
    [total_count |-> Len(kinds),
     workflow_runs |-> [i \in 1..Len(kinds) |-> [id |-> RunId(i)]]]

StorageOf(kinds) ==
    [r \in {RunId(i) : i \in 1..Len(kinds)} |->
        Response(r, kinds[CHOOSE i \in 1..Len(kinds) : RunId(i) = r])]

\* the first statement of __main__ after parse_args
FirstStatement(s) == IF s = "reuse" THEN "is_main_branch" ELSE "check_changed_files"

\* what every run starts with, whatever the environment
Fresh ==
    /\ changed_files = <<>>
    /\ returned = NotCalled
    /\ can_use_old_whl = "-"
    /\ run_index = 0
    /\ probed = <<>>
    /\ artifacts_zip = NoFile
    /\ artifacts = NoDirectory
    /\ wheel_path = {}
    /\ output_file = <<>>
    /\ stdout = <<>>
    /\ exit_code = "-"
    /\ patched = <<>>

\* a run of either script in a checkout: on trunk (head is the merge base,
\* so the diff is empty) or on a branch
Init ==
    /\ script \in {"reuse", "check"}
    /\ pc = FirstStatement(script)
    /\ merge_base = "sha-base"
    /\ head_sha \in {"sha-base", "sha-head"}
    /\ diff_output \in {name_only(l) : l \in SubLists(RepoPaths, MaxFiles)}
    /\ head_sha = merge_base => diff_output = ""
    /\ pulls \in PullsResponses
    /\ \E kinds \in KindSeqs(MaxRuns) :
          /\ workflow_runs = RunsResponse(kinds)
          /\ storage = StorageOf(kinds)
    /\ GITHUB_OUTPUT \in BOOLEAN
    /\ torch = CheckoutTree
    /\ Fresh

\* ------------------------------------------------------------ veto checks
\* is_main_branch
is_main_branch == merge_base = head_sha

\* pr.get("labels", [])
pr_labels(pr) == IF "labels" \in DOMAIN pr THEN pr.labels ELSE <<>>

\* check_labels_for_pr: True at the first label named FORCE_REBUILD_LABEL
check_labels_for_pr ==
    \E i \in 1..Len(pulls) :
        \E j \in 1..Len(pr_labels(pulls[i])) :
            pr_labels(pulls[i])[j].name = FORCE_REBUILD_LABEL

\* check_changed_files, on what git printed
check_changed_files(s, printed) == check_files_loop(s, split(strip(printed)), 1)

\* reuse script, first operand of `not is_main_branch() and ...`; the
\* other operands are not evaluated once one is false
IsMainBranch ==
    /\ pc = "is_main_branch"
    /\ returned' = [returned EXCEPT !.is_main_branch = Bool(is_main_branch)]
    /\ IF is_main_branch
       THEN /\ can_use_old_whl' = "False"
            /\ pc' = "find_old_whl"
       ELSE /\ can_use_old_whl' = can_use_old_whl
            /\ pc' = "check_changed_files"
    /\ UNCHANGED << env, changed_files, run_index, probed, files,
                    output_file, stdout, exit_code >>

\* check_changed_files(): the whole of can_use_old_whl in the check script,
\* the second operand in the reuse script
CheckChangedFiles ==
    /\ pc = "check_changed_files"
    /\ changed_files' = split(strip(diff_output))
    /\ LET ok == check_changed_files(script, diff_output)
       IN /\ returned' = [returned EXCEPT !.check_changed_files = Bool(ok)]
          /\ IF script = "reuse" /\ ok
             THEN /\ can_use_old_whl' = can_use_old_whl
                  /\ pc' = "check_labels_for_pr"
             ELSE /\ can_use_old_whl' = Bool(ok)
                  /\ pc' = "find_old_whl"
    /\ UNCHANGED << env, run_index, probed, files, output_file, stdout,
                    exit_code >>

\* reuse script, last operand: not check_labels_for_pr()
CheckLabelsForPr ==
    /\ pc = "check_labels_for_pr"
    /\ returned' = [returned EXCEPT
                       !.check_labels_for_pr = Bool(check_labels_for_pr)]
    /\ can_use_old_whl' = Bool(~check_labels_for_pr)
    /\ pc' = "find_old_whl"
    /\ UNCHANGED << env, changed_files, run_index, probed, files,
                    output_file, stdout, exit_code >>

\* ------------------------------------------------------------ find_old_whl
\* the runs the loop of find_old_whl goes through
candidates == workflow_runs.workflow_runs

\* an iteration that takes any answer for the wheel, whatever its status
probe_step_any_status(response) ==
    IF response.raised THEN "continue" ELSE "return True"

\* an iteration whose except clause does not catch the request's error
probe_step_uncaught(response) ==
    IF response.raised THEN "raise"
    ELSE IF response.status_code = 200 THEN "return True"
    ELSE "next"

\* one iteration of the loop, on the answer of requests.get: the function
\* returns True on status 200; the except clause and any other status go on
\* to the next run
probe_step(response) ==
    IF response.raised THEN "continue"
    ELSE IF response.status_code = 200 THEN "return True"
    ELSE "next"

\* find_old_whl up to its loop: no runs, no wheel.  (--build-environment is
\* a required argument, so build_environment is never None.)
FindOldWhlQuery ==
    /\ pc = "find_old_whl"
    /\ IF workflow_runs.total_count = 0
       THEN /\ returned' = [returned EXCEPT !.find_old_whl = "False"]
            /\ run_index' = run_index
            /\ pc' = "after_find"
       ELSE /\ returned' = returned
            /\ run_index' = 1
            /\ pc' = "probe"
    /\ UNCHANGED << env, changed_files, can_use_old_whl, probed, files,
                    output_file, stdout, exit_code >>

\* the body of the loop for the run at run_index
ProbeRun ==
    /\ pc = "probe"
    /\ run_index <= Len(candidates)
    /\ LET run_id == candidates[run_index].id
           response == storage[run_id]
           step == probe_step(response)
       IN /\ probed' = Append(probed, run_id)
          /\ IF step = "return True"
             THEN /\ artifacts_zip' = response.content
                  /\ returned' = [returned EXCEPT !.find_old_whl = "True"]
                  /\ run_index' = run_index
                  /\ pc' = "after_find"
                  /\ exit_code' = exit_code
             ELSE IF step \in {"continue", "next"}
             THEN /\ artifacts_zip' = artifacts_zip
                  /\ returned' = returned
                  /\ run_index' = run_index + 1
                  /\ pc' = "probe"
                  /\ exit_code' = exit_code
             ELSE \* an exception nothing catches ends the process
                  /\ artifacts_zip' = artifacts_zip
                  /\ returned' = returned
                  /\ run_index' = run_index
                  /\ pc' = "done"
                  /\ exit_code' = "1"
    /\ UNCHANGED << env, changed_files, can_use_old_whl, artifacts,
                    wheel_path, patched, output_file, stdout >>

\* the loop ran out of runs: return False
NoRunHasWheel ==
    /\ pc = "probe"
    /\ run_index > Len(candidates)
    /\ returned' = [returned EXCEPT !.find_old_whl = "False"]
    /\ pc' = "after_find"
    /\ UNCHANGED << env, changed_files, can_use_old_whl, run_index, probed,
                    files, output_file, stdout, exit_code >>

\* ------------------------------------------------------------ __main__
\* __main__ going to set_output without the patch
main_after_find_skips_patch(found) == IF ~found THEN "exit" ELSE "set_output"

\* where __main__ goes once find_old_whl has returned
main_after_find(found) == IF ~found THEN "exit" ELSE "unzip"

\* the line either script writes for key: to the output file when the
\* environment names one, else as a ::set-output line
emit(key, to_file, lines) ==
    IF to_file THEN Append(lines, key \o "=true") ELSE lines

emit_legacy(key, to_file, lines) ==
    IF to_file THEN lines ELSE Append(lines, "::set-output name=" \o key \o "::true")

\* `if not find_old_whl(...)`: the reuse script exits; the check script
\* writes build=true and exits; else the patch starts
AfterFindOldWhl ==
    /\ pc = "after_find"
    /\ IF main_after_find(returned.find_old_whl = "True") = "exit"
       THEN /\ pc' = "done"
            /\ exit_code' = "0"
            /\ IF script = "check"
               THEN /\ output_file' = emit("build", GITHUB_OUTPUT, output_file)
                    /\ stdout' = emit_legacy("build", GITHUB_OUTPUT, stdout)
               ELSE UNCHANGED << output_file, stdout >>
       ELSE /\ pc' = main_after_find(returned.find_old_whl = "True")
            /\ UNCHANGED << output_file, stdout, exit_code >>
    /\ UNCHANGED << env, changed_files, returned, can_use_old_whl, run_index,
                    probed, files >>

\* set_output, the last statement of the reuse script
SetOutput ==
    /\ pc = "set_output"
    /\ output_file' = emit("reuse", GITHUB_OUTPUT, output_file)
    /\ stdout' = emit_legacy("reuse", GITHUB_OUTPUT, stdout)
    /\ pc' = "done"
    /\ exit_code' = "0"
    /\ UNCHANGED << env, changed_files, returned, can_use_old_whl, run_index,
                    probed, files >>

\* ------------------------------------------------------------ the patch
\* unzip -o artifacts.zip -d artifacts; os.remove; the glob of the wheels
UnzipArtifact ==
    /\ pc = "unzip"
    /\ artifacts_zip.exists
    /\ artifacts' = [dist |-> Overlay(artifacts.dist, artifacts_zip.dist),
                     expanded |-> Overlay(artifacts.expanded,
                                          artifacts_zip.expanded)]
    /\ artifacts_zip' = NoFile
    /\ wheel_path' = {n \in DOMAIN artifacts'.dist : endswith(n, ".whl")}
    /\ pc' = "patch_wheel"
    /\ UNCHANGED << env, changed_files, returned, can_use_old_whl, run_index,
                    probed, patched, output_file, stdout, exit_code >>

\* os.rename(src, dst) in a directory
rename(dir, src, dst) == Overlay(Without(dir, src), [n \in {dst} |-> dir[src]])

\* unzip -o archive -d dir: the entries land in dir, over what is there
unzip_into(expanded, dir, archive) ==
    Overlay(expanded,
            [d \in {dir} |-> IF dir \in DOMAIN expanded
                             THEN Overlay(expanded[dir], archive)
                             ELSE archive])

\* rsync -avz torch dir: the working tree's torch/ lands in dir/torch/
rsync_torch(expanded, dir, tree) ==
    [expanded EXCEPT ![dir] = Overlay(expanded[dir], tree)]

\* zip -r artifacts/dist/<dir>.zip artifacts/dist/<dir>: zip adds the files
\* of the directory to the archive that is there, each under the path given
\* on the command line
zip_r(dist, zip_name, dir, tree) ==
    LET old == IF zip_name \in DOMAIN dist THEN dist[zip_name] ELSE NoEntries
    IN Overlay(dist, [n \in {zip_name} |->
                         Overlay(old, UnderDir("artifacts/dist/" \o dir, tree))])

\* the body of the loop over the wheels, for one wheel
patch_wheel(dir, path, tree) ==
    LET new_path == with_suffix(path, ".zip")
        d == stem(new_path)
        renamed == rename(dir.dist, path, new_path)
        unzipped == unzip_into(dir.expanded, d, renamed[new_path])
        synced == rsync_torch(unzipped, d, tree)
        zipped == zip_r(renamed, d \o ".zip", d, synced[d])
        back == rename(zipped, new_path, path)
    IN [dist |-> back, expanded |-> Without(synced, d)]

PatchWheel ==
    /\ pc = "patch_wheel"
    /\ \E path \in wheel_path :
          /\ artifacts' = patch_wheel(artifacts, path, torch)
          /\ wheel_path' = wheel_path \ {path}
    /\ UNCHANGED << env, pc, changed_files, returned, can_use_old_whl,
                    run_index, probed, artifacts_zip, patched, output_file,
                    stdout, exit_code >>

\* zip -r artifacts.zip . in artifacts/, then mv artifacts/artifacts.zip .
\* and the function returns; the check script ends with it
RezipArtifact ==
    /\ pc = "patch_wheel"
    /\ wheel_path = {}
    /\ artifacts_zip' = [exists |-> TRUE, dist |-> artifacts.dist,
                         expanded |-> artifacts.expanded]
    /\ patched' = Append(patched, artifacts_zip')
    /\ IF script = "reuse"
       THEN pc' = "set_output" /\ exit_code' = exit_code
       ELSE pc' = "done" /\ exit_code' = "0"
    /\ UNCHANGED << env, changed_files, returned, can_use_old_whl, run_index,
                    probed, artifacts, wheel_path, output_file, stdout >>

\* ------------------------------------------------------------ specifications
Next ==
    \/ IsMainBranch
    \/ CheckChangedFiles
    \/ CheckLabelsForPr
    \/ FindOldWhlQuery
    \/ ProbeRun
    \/ NoRunHasWheel
    \/ AfterFindOldWhl
    \/ UnzipArtifact
    \/ PatchWheel
    \/ RezipArtifact
    \/ SetOutput

Spec == Init /\ [][Next]_vars

\* ------------------------------------------------------------ classify only
\* check_changed_files alone, in either script, on lists from the wider tree
InitFiles ==
    /\ script \in {"reuse", "check"}
    /\ pc = "check_changed_files"
    /\ merge_base = "sha-base"
    /\ head_sha = "sha-head"
    /\ diff_output \in {name_only(l) : l \in SubLists(WidePaths, MaxFiles)}
    /\ pulls = <<>>
    /\ workflow_runs = RunsResponse(<<>>)
    /\ storage = StorageOf(<<>>)
    /\ GITHUB_OUTPUT = TRUE
    /\ torch = CheckoutTree
    /\ changed_files = <<>>
    /\ returned = IF script = "reuse"
                  THEN [NotCalled EXCEPT !.is_main_branch = "False"]
                  ELSE NotCalled
    /\ can_use_old_whl = "-"
    /\ run_index = 0
    /\ probed = <<>>
    /\ artifacts_zip = NoFile
    /\ artifacts = NoDirectory
    /\ wheel_path = {}
    /\ output_file = <<>>
    /\ stdout = <<>>
    /\ exit_code = "-"
    /\ patched = <<>>

NextFiles == CheckChangedFiles

SpecFiles == InitFiles /\ [][NextFiles]_vars

\* ------------------------------------------------------------ patch only
\* unzip_artifact_and_replace_files alone, on an artifacts.zip that
\* find_old_whl left, applied again to its own result
InitPatch ==
    /\ script \in {"reuse", "check"}
    /\ pc = "unzip"
    /\ merge_base = "sha-base"
    /\ head_sha = "sha-head"
    /\ diff_output = ""
    /\ pulls = <<>>
    /\ workflow_runs = RunsResponse(<<"200">>)
    /\ storage = StorageOf(<<"200">>)
    /\ GITHUB_OUTPUT = TRUE
    /\ torch \in WorkingTrees
    /\ changed_files = <<>>
    /\ returned = [is_main_branch |-> IF script = "reuse" THEN "False" ELSE "-",
                   check_changed_files |-> "True",
                   check_labels_for_pr |-> IF script = "reuse" THEN "False" ELSE "-",
                   find_old_whl |-> "True"]
    /\ can_use_old_whl = "True"
    /\ run_index = 1
    /\ probed = <<RunId(1)>>
    /\ artifacts_zip \in PatchArtifacts
    /\ artifacts = NoDirectory
    /\ wheel_path = {}
    /\ output_file = <<>>
    /\ stdout = <<>>
    /\ exit_code = "-"
    /\ patched = <<>>

\* the function is called again, with the working tree as it was
ApplyAgain ==
    /\ pc \in {"set_output", "done"}
    /\ Len(patched) < MaxApplications
    /\ pc' = "unzip"
    /\ exit_code' = "-"
    /\ UNCHANGED << env, changed_files, returned, can_use_old_whl, run_index,
                    probed, files, output_file, stdout >>

NextPatch ==
    \/ UnzipArtifact
    \/ PatchWheel
    \/ RezipArtifact
    \/ ApplyAgain

SpecPatch == InitPatch /\ [][NextPatch]_vars

\* ------------------------------------------------------------ claims
\* the reuse decision has been written, in either form
ReuseEmitted ==
    \/ \E i \in 1..Len(output_file) : output_file[i] = "reuse=true"
    \/ \E i \in 1..Len(stdout) : stdout[i] = "::set-output name=reuse::true"

\* unzip_artifact_and_replace_files has been entered
PatchReached == pc = "patch_wheel" \/ patched # <<>>

\* the list of changed paths the script reads from git
DiffList == split(strip(diff_output))

\* the allow list as the specification words it
AllowListed(p) ==
    \/ /\ Len(p) >= 6 /\ SubSeq(p, 1, 6) = "torch/"
       /\ Len(p) >= 3 /\ SubSeq(p, Len(p) - 2, Len(p)) = ".py"
       /\ ~(Len(p) >= 11 /\ SubSeq(p, 1, 11) = "torch/csrc/")
    \/ /\ Len(p) >= 5 /\ SubSeq(p, 1, 5) = "test/"
       /\ Len(p) >= 3 /\ SubSeq(p, Len(p) - 2, Len(p)) = ".py"

\* a pull request of the head commit carries ci-force-rebuild
HasForceLabel ==
    \E i \in 1..Len(pulls) :
        /\ "labels" \in DOMAIN pulls[i]
        /\ \E j \in 1..Len(pulls[i].labels) :
              pulls[i].labels[j].name = "ci-force-rebuild"

\* the probe of the i-th run answers 200
Answers200(i) ==
    /\ ~storage[candidates[i].id].raised
    /\ storage[candidates[i].id].status_code = 200

\* C1: in the reuse script a run whose head commit is the merge base never
\* patches the artifact and never emits reuse=true.
C1_TrunkRunNeverReuses ==
    (script = "reuse" /\ head_sha = merge_base)
        => (~PatchReached /\ ~ReuseEmitted)

\* C2: in the reuse script a run whose head commit has a pull request
\* labelled ci-force-rebuild never patches the artifact and never emits
\* reuse=true.
C2_ForceLabelNeverReuses ==
    (script = "reuse" /\ HasForceLabel)
        => (~PatchReached /\ ~ReuseEmitted)

\* C3: in both scripts a run whose changed-file list holds a path that is
\* not allow-listed never reaches the patch and never emits reuse=true.
C3_DisallowedPathNeverReuses ==
    (\E i \in 1..Len(DiffList) : ~AllowListed(DiffList[i]))
        => (~PatchReached /\ ~ReuseEmitted)

\* C4: on every path check_changed_files classifies, ok_changed_file of
\* either script is true exactly when the path is under torch/ with suffix
\* .py and not under torch/csrc/, or under test/ with suffix .py; and
\* torch/nn/linear.py is allowed, torch/csrc/foo.cpp and setup.py are not.
C4_AllowListPredicate ==
    /\ \A i \in 1..Len(changed_files) :
          /\ reuse_ok_changed_file(changed_files[i]) = AllowListed(changed_files[i])
          /\ check_ok_changed_file(changed_files[i])
                = reuse_ok_changed_file(changed_files[i])
    /\ \A i \in 1..Len(changed_files) :
          /\ changed_files[i] = "torch/nn/linear.py"
                => ok_changed_file(script, changed_files[i])
          /\ changed_files[i] \in {"torch/csrc/foo.cpp", "setup.py"}
                => ~ok_changed_file(script, changed_files[i])

\* check_changed_files has classified a list holding a .py file under
\* torch/csrc/ and an allowed file
C4_Witness ==
    /\ returned.check_changed_files # "-"
    /\ \E i, j \in 1..Len(changed_files) :
          /\ changed_files[i] = "torch/csrc/gen.py"
          /\ changed_files[j] = "torch/nn/linear.py"

\* C5: when find_old_whl returns True, the runs probed are the provider's
\* list up to one run k, in the provider's order; run k answered 200 and
\* no earlier run did; artifacts.zip holds the body of run k's answer until
\* the patch takes it; and no run after k is ever probed.
C5_FirstSuccessWins ==
    returned.find_old_whl = "True" =>
        \E k \in 1..Len(candidates) :
            /\ probed = [i \in 1..k |-> candidates[i].id]
            /\ Answers200(k)
            /\ \A i \in 1..(k - 1) : ~Answers200(i)
            /\ pc \in {"after_find", "unzip"}
                  => artifacts_zip = storage[candidates[k].id].content

\* the second of three runs was selected after the first did not answer 200
C5_Witness ==
    /\ returned.find_old_whl = "True"
    /\ Len(candidates) = 3
    /\ Len(probed) = 2
    /\ pc = "done"

\* C6: a request error at one run does not end find_old_whl: the process
\* does not abort, artifacts.zip is not written while no run has answered
\* 200, the function returns True exactly when some run answers 200, and
\* returns False, without raising, when none does.
C6_ProbeErrorIsNotFound ==
    /\ exit_code # "1"
    /\ (pc = "probe" \/ returned.find_old_whl = "False") => ~artifacts_zip.exists
    /\ returned.find_old_whl # "-" =>
          (returned.find_old_whl = "True"
              <=> \E i \in 1..Len(candidates) : Answers200(i))
    /\ pc = "probe" =>
          /\ Len(probed) = run_index - 1
          /\ \A i \in 1..Len(probed) : ~Answers200(i)

\* a run answered 200 after an earlier run's probe raised
C6_Witness ==
    /\ returned.find_old_whl = "True"
    /\ \E i \in 1..Len(probed) : storage[probed[i]].raised

\* C7: in the reuse script, once no veto applies, a run that finds no
\* artifact ends with exit code 0, nothing patched and no reuse emitted; a
\* run that finds one ends with the patch done once and reuse=true emitted;
\* reuse=true is emitted only after the patch has completed; the patch
\* starts on an artifacts.zip that exists; and an empty changed-file list
\* off trunk with no force label and a stored artifact ends in reuse.
C7_LinearFlow ==
    (script = "reuse" /\ can_use_old_whl = "True") =>
        /\ (pc = "done" /\ returned.find_old_whl = "False")
              => (exit_code = "0" /\ patched = <<>> /\ ~ReuseEmitted
                  /\ artifacts = NoDirectory)
        /\ (pc = "done" /\ returned.find_old_whl = "True")
              => (exit_code = "0" /\ Len(patched) = 1 /\ ReuseEmitted)
        /\ ReuseEmitted => (Len(patched) = 1 /\ artifacts_zip = patched[1])
        /\ pc = "unzip" => artifacts_zip.exists
        /\ (/\ pc = "done"
            /\ DiffList = <<>>
            /\ head_sha # merge_base
            /\ ~HasForceLabel
            /\ \E i \in 1..Len(candidates) : Answers200(i))
              => ReuseEmitted

\* a branch run with no changed file, no label and a stored artifact has
\* ended with reuse=true
C7_Witness ==
    /\ script = "reuse"
    /\ can_use_old_whl = "True"
    /\ returned.check_changed_files = "True"
    /\ changed_files = <<>>
    /\ pc = "done"
    /\ ReuseEmitted

\* C8: the wheels after the patch is applied a second time, with the same
\* working tree, hold the entries and contents they held after the first.
C8_PatchIdempotent ==
    Len(patched) >= 2 => patched[2].dist = patched[1].dist

Downloaded == storage[probed[Len(probed)]].content

\* C10: after the patch, every wheel is at its path in artifacts/dist and
\* holds, at torch/f, the working tree's content of every file f of torch/;
\* its entries outside torch/ are as they were; and no expansion directory
\* is left.
C10_WheelReflectsSource ==
    (Len(patched) = 1 /\ returned.find_old_whl = "True") =>
        /\ DOMAIN patched[1].dist = DOMAIN Downloaded.dist
        /\ DOMAIN artifacts.dist = DOMAIN Downloaded.dist
        /\ \A w \in {n \in DOMAIN Downloaded.dist : endswith(n, ".whl")} :
              /\ \A f \in DOMAIN torch :
                    /\ f \in DOMAIN patched[1].dist[w]
                    /\ patched[1].dist[w][f] = torch[f]
              /\ \A k \in DOMAIN Downloaded.dist[w] :
                    ~startswith(k, "torch/")
                        => /\ k \in DOMAIN patched[1].dist[w]
                           /\ patched[1].dist[w][k] = Downloaded.dist[w][k]
        /\ artifacts.expanded = NoEntries
        /\ patched[1].expanded = NoEntries

====
